---- MODULE Spec2Model ----
(***************************************************************************)
(* Model of the two conversion scripts of cms_media_guide.                 *)
(*                                                                         *)
(*   separate_latex_tables.py  (the separator run, specification Spec):    *)
(*     main -> extract_sections_from_latex -> get_highlight_images ->      *)
(*     write_section_to_file for 'champs', 'dual', 'team'.                 *)
(*   populate_eventprofiles.py (the table renderer, specification SpecA):  *)
(*     create_latex_content_from_data -> create_event_latex.               *)
(*                                                                         *)
(* Text is a sequence of symbols.  The literals the regular expression of  *)
(* extract_sections_from_latex looks for are one symbol each; every other  *)
(* symbol is an opaque chunk of characters without braces or backslashes.  *)
(***************************************************************************)
EXTENDS Integers, Sequences, FiniteSets, TLC

VARIABLES
    \* ---- separate_latex_tables.py --------------------------------------
    input_doc,         \* generated_latex.tex as a sequence of LaTeX tokens
    input_exists,      \* os.path.exists(input_file)
    pc,                \* position of main()
    sections,          \* main: sections
    highlight_images,  \* main: highlight_images
    target,            \* index into ['champs','dual','team'] of the loop
    file_sections,     \* write_section_to_file: file_sections
    current_section,   \* write_section_to_file: current_section
    k,                 \* write_section_to_file: position of the write loop
    files,             \* the output files: target -> sequence of f.write calls
    opened,            \* the targets whose file was opened for writing
    diagnostics,       \* the print() calls that report an outcome
    \* ---- populate_eventprofiles.py -------------------------------------
    df,                \* the DataFrame given to create_latex_content_from_data
    pcA,               \* position of create_latex_content_from_data
    row_i,             \* the loop variable i
    current_event,     \* current_event
    event_data,        \* event_data
    latex_content,     \* latex_content (a list of lines)
    calls,             \* the arguments of each create_event_latex call
    result             \* the returned string (as its list of lines)

varsB == <<input_doc, input_exists, pc, sections, highlight_images,
           target, file_sections, current_section, k, files, opened,
           diagnostics>>
varsA == <<df, pcA, row_i, current_event, event_data, latex_content, calls,
           result>>
vars == <<varsB, varsA>>

(***************************************************************************)
(* Bounds of the model.                                                    *)
(***************************************************************************)
MaxSections == 4   \* heading groups in a structured input document
MaxTokens == 5     \* tokens in a free-form input document
MaxImages == 1     \* image files in the highlights directory
MaxRows == 4       \* data rows of the DataFrame (after the 5 header rows)

None == <<>>       \* Python's None (no name or text is the empty sequence)

\* a DataFrame: None, or its rows
NoneDF == [none |-> TRUE, rows |-> <<>>]
DF(rows) == [none |-> FALSE, rows |-> rows]

(***************************************************************************)
(* Symbols of a text.                                                      *)
(***************************************************************************)
SUB == "\\subsection{"
SSUB == "\\subsubsection{"
CLOSE == "}"
ENDOPEN == "\\end{document"
NL == "\n"
SPACE == " "

\* the whitespace str.strip() removes and \s matches
IsSpace(c) == c \in {NL, SPACE}

\* str.strip()
RECURSIVE LStrip(_)
LStrip(s) == IF s # <<>> /\ IsSpace(Head(s)) THEN LStrip(Tail(s)) ELSE s
RECURSIVE RStrip(_)
RStrip(s) ==
    IF s # <<>> /\ IsSpace(s[Len(s)]) THEN RStrip(SubSeq(s, 1, Len(s) - 1)) ELSE s
Strip(s) == RStrip(LStrip(s))

(***************************************************************************)
(* The fixed tables.                                                       *)
(***************************************************************************)
Targets == <<"champs", "dual", "team">>

create_section_mapping ==
    [n \in {"CMS All Time Top 10", "CMS Axelrood Pool Records",
            "CMS Frosh Swimming & Diving Records",
            "Development of Team Records (October 2001 to March 2025)",
            "CMS at UCSD", "CMS at Cal Baptist Distance Meet", "CMS at PP",
            "CMS at PP Combined", "CMS SCIAC Champions",
            "SCIAC All Time Top 10 Performers", "SCIAC Records", "NCAA TOP 20"} |->
        CASE n \in {"CMS All Time Top 10", "CMS Axelrood Pool Records",
                    "CMS Frosh Swimming & Diving Records",
                    "Development of Team Records (October 2001 to March 2025)"}
               -> "team"
          [] n \in {"CMS at UCSD", "CMS at Cal Baptist Distance Meet", "CMS at PP",
                    "CMS at PP Combined"}
               -> "dual"
          [] OTHER -> "champs"]

get_sex_mapping ==
    [s \in {"Athena", "Stag", "Women", "Men"} |->
        CASE s = "Athena" -> "Athenas"
          [] s = "Stag" -> "Stags"
          [] OTHER -> s]

\* section_mapping.get(section_name): a name is a key when it is exactly the
\* key's text, that is, the one chunk that spells it.
SectionMappingGet(section_name) ==
    IF Len(section_name) = 1 /\ section_name[1] \in DOMAIN create_section_mapping
    THEN create_section_mapping[section_name[1]]
    ELSE "None"

\* sex_mapping.get(sex, sex)
SexMappingGet(sex) ==
    IF Len(sex) = 1 /\ sex[1] \in DOMAIN get_sex_mapping
    THEN <<get_sex_mapping[sex[1]]>>
    ELSE sex

(***************************************************************************)
(* extract_sections_from_latex: the regular expression                     *)
(*   (\\subsection\{[^}]+\})\s*(\\subsubsection\{[^}]+\})\s*(.*?)          *)
(*   (?=\\subsection\{|\\end\{document\}|$)            with re.DOTALL      *)
(* as re.findall applies it.  Positions are 1-based.                       *)
(***************************************************************************)
\* first position >= p holding a "}", or 0
RECURSIVE FindClose(_, _)
FindClose(content, p) ==
    IF p > Len(content) THEN 0
    ELSE IF content[p] = CLOSE THEN p
    ELSE FindClose(content, p + 1)

\* opener [^}]+ \}  at p: the position of the closing brace, or 0
MatchBraced(content, p, opener) ==
    IF p > Len(content) \/ content[p] # opener THEN 0
    ELSE LET c == FindClose(content, p + 1)
         IN  IF c = 0 \/ c = p + 1 THEN 0 ELSE c

\* \s* from p: the first position >= p that is not whitespace
RECURSIVE SkipSpace(_, _)
SkipSpace(content, p) ==
    IF p <= Len(content) /\ IsSpace(content[p]) THEN SkipSpace(content, p + 1) ELSE p

\* (?=\\subsection\{|\\end\{document\}|$) at p; "$" holds at the end of the
\* text and before a newline that ends the text
Lookahead(content, p) ==
    \/ p = Len(content) + 1
    \/ p = Len(content) /\ content[p] = NL
    \/ p <= Len(content) /\ content[p] = SUB
    \/ p < Len(content) /\ content[p] = ENDOPEN /\ content[p + 1] = CLOSE

\* (.*?) from p: the first position >= p where the lookahead holds
BodyEndGreedy(content, p) == Len(content) + 1
RECURSIVE BodyEnd(_, _)
BodyEnd(content, p) ==
    IF Lookahead(content, p) THEN p ELSE BodyEnd(content, p + 1)

\* one attempt of the pattern at position p
MatchAt(content, p) ==
    LET c1 == MatchBraced(content, p, SUB)
        p2 == SkipSpace(content, c1 + 1)
        c2 == IF c1 = 0 THEN 0 ELSE MatchBraced(content, p2, SSUB)
        p3 == SkipSpace(content, c2 + 1)
        e  == BodyEnd(content, p3)
    IN  IF c1 = 0 \/ c2 = 0
        THEN [ok |-> FALSE]
        ELSE [ok |-> TRUE,
              subsection |-> SubSeq(content, p, c1),
              subsubsection |-> SubSeq(content, p2, c2),
              body |-> SubSeq(content, p3, e - 1),
              end |-> e]

\* re.search(r'\\subsection\{([^}]+)\}', text).group(1), on a matched group
InnerName(group) == SubSeq(group, 2, Len(group) - 1)

\* the dictionary appended for one match (lines 113-130)
SectionOf(m) ==
    [section_name |-> InnerName(Strip(m.subsection)),
     sex |-> InnerName(Strip(m.subsubsection)),
     subsection |-> Strip(m.subsection),
     subsubsection |-> Strip(m.subsubsection),
     content |-> Strip(m.body)]

\* re.findall from position p on
RECURSIVE FindAll(_, _)
FindAll(content, p) ==
    IF p > Len(content) THEN <<>>
    ELSE LET m == MatchAt(content, p)
         IN  IF m.ok THEN <<SectionOf(m)>> \o FindAll(content, m.end)
             ELSE FindAll(content, p + 1)

extract_sections_from_latex(content) == FindAll(content, 1)

(***************************************************************************)
(* The input document.  A token is a well-formed piece of LaTeX; the text  *)
(* the script reads is the concatenation of the tokens' symbols.           *)
(***************************************************************************)
H(name) == <<"H", name>>      \* \subsection{name}
S(label) == <<"S", label>>    \* \subsubsection{label}
T(text) == <<"T", text>>      \* body text
W == <<"W">>                  \* a newline
E == <<"E">>                  \* \end{document}

TokenText(tok) ==
    CASE tok[1] = "H" -> <<SUB, tok[2], CLOSE>>
      [] tok[1] = "S" -> <<SSUB, tok[2], CLOSE>>
      [] tok[1] = "T" -> <<tok[2]>>
      [] tok[1] = "W" -> <<NL>>
      [] OTHER -> <<ENDOPEN, CLOSE>>

RECURSIVE Flatten(_)
Flatten(seqs) == IF seqs = <<>> THEN <<>> ELSE Head(seqs) \o Flatten(Tail(seqs))

\* f.read() of a file holding the tokens
FileText(doc) == Flatten([i \in 1..Len(doc) |-> TokenText(doc[i])])

BoundedSeq(set, n) == UNION {[1..m -> set] : m \in 0..n}

\* free-form documents: any order of headings, sub-headings, text, whitespace
TokenAlphabet == {H("CMS at PP"), S("Men"), T("x"), W, E}
TokenDocs == BoundedSeq(TokenAlphabet, MaxTokens)

\* structured documents: heading groups as the generator writes them
Groups ==
    { <<H("CMS All Time Top 10"), S("Men"), T("x")>>,
      <<H("CMS All Time Top 10"), W, S("Women"), W, T("y"), W>>,
      <<H("CMS Axelrood Pool Records"), S("Men"), T("x")>>,
      <<H("CMS at PP"), S("Stag")>>,
      <<H("NCAA TOP 20"), S("Athena"), T("y"), E>>,
      <<H("cms at pp"), S("Men"), T("x"), H("CMS at UCSD"), T("y")>> }
GroupDocs == {Flatten(g) : g \in BoundedSeq(Groups, MaxSections)}

(***************************************************************************)
(* write_section_to_file                                                   *)
(***************************************************************************)
Write(kind, name, sub, image, text) ==
    [kind |-> kind, name |-> name, sub |-> sub, image |-> image, text |-> text]

\* lines 155-160: the header written for a target file
Header(target_file) ==
    CASE target_file = "champs" -> <<"\\section{Championship Records}\n\n">>
      [] target_file = "dual" -> <<"\\section{Dual Meet Records}\n\n">>
      [] target_file = "team" -> <<"% chktex-file 8\n\n\\section{Team Records}\n\n">>
      [] OTHER -> <<>>

\* lines 136-144: the sections that belong to the target file
RECURSIVE GroupByName(_)
GroupByName(secs) ==
    IF secs = <<>> THEN <<>>
    ELSE SelectSeq(secs, LAMBDA s : s.section_name = Head(secs).section_name)
         \o GroupByName(SelectSeq(secs,
                LAMBDA s : s.section_name # Head(secs).section_name))
FileSectionsGrouped(secs, target_file) ==
    GroupByName(SelectSeq(secs,
        LAMBDA s : SectionMappingGet(s.section_name) = target_file))
FileSections(secs, target_file) ==
    SelectSeq(secs, LAMBDA s : SectionMappingGet(s.section_name) = target_file)

\* line 146: "if not file_sections"
NoSectionsLeaveOut(fs) == FALSE
HasNoSections(fs) == fs = <<>>

\* line 169: is this a new section?
NewSectionAlways(current, section_name) == TRUE
NewSectionNotFirst(current, section_name) ==
    current # None /\ current # section_name
NewSection(current, section_name) == current # section_name

\* lines 168-173: the spacing and the heading written for a new section
HeadingWrites(current, section) ==
    IF NewSection(current, section.section_name)
    THEN (IF current # None
          THEN <<Write("text", None, None, None, <<NL>>)>>
          ELSE <<>>)
         \o <<Write("subsection", section.section_name, None, None, None)>>
    ELSE <<>>

\* lines 165-184: the f.write calls of one iteration of the loop
RecordWrites(current, section, random_image) ==
    HeadingWrites(current, section)
    \o <<Write("title_page", section.section_name, SexMappingGet(section.sex),
               random_image, None)>>
    \o (IF Strip(section.content) # <<>>
        THEN <<Write("text", None, None, None, Strip(section.content)),
               Write("text", None, None, None, <<NL, NL>>)>>
        ELSE <<>>)

\* lines 55-59: the relative path of the i-th file glob returns
RelativePath(i) == <<"../assets/highlights/Highlights/", i>>

(***************************************************************************)
(* The separator run: main() of separate_latex_tables.py                   *)
(***************************************************************************)
IdleA ==
    /\ df = NoneDF
    /\ pcA = "idle"
    /\ row_i = 0
    /\ current_event = None
    /\ event_data = <<>>
    /\ latex_content = <<>>
    /\ calls = <<>>
    /\ result = None

Init ==
    /\ input_exists \in BOOLEAN
    /\ input_doc \in (IF input_exists THEN TokenDocs \cup GroupDocs ELSE {<<>>})
    /\ pc = "start"
    /\ sections = <<>>
    /\ highlight_images = <<>>
    /\ target = 1
    /\ file_sections = <<>>
    /\ current_section = None
    /\ k = 1
    /\ files = [t \in 1..3 |-> <<>>]
    /\ opened = {}
    /\ diagnostics = <<>>
    /\ IdleA

\* lines 190-194
MainCheckInput ==
    /\ pc = "start"
    /\ IF input_exists
       THEN /\ pc' = "extract"
            /\ UNCHANGED diagnostics
       ELSE /\ pc' = "done"
            /\ diagnostics' = Append(diagnostics, <<"Error: Input file not found!">>)
    /\ UNCHANGED <<input_doc, input_exists, sections, highlight_images, target,
                   file_sections, current_section, k, files, opened>>
    /\ UNCHANGED varsA

\* lines 196-198
MainExtract ==
    /\ pc = "extract"
    /\ sections' = extract_sections_from_latex(FileText(input_doc))
    /\ pc' = "images"
    /\ UNCHANGED <<input_doc, input_exists, highlight_images, target,
                   file_sections, current_section, k, files, opened, diagnostics>>
    /\ UNCHANGED varsA

\* lines 200-207, get_highlight_images: glob finds n image files, none when
\* the directory is empty or absent
MainGetHighlightImages ==
    /\ pc = "images"
    /\ \E n \in 0..MaxImages :
          highlight_images' = [i \in 1..n |-> RelativePath(i)]
    /\ pc' = "write"
    /\ target' = 1
    /\ UNCHANGED <<input_doc, input_exists, sections, file_sections,
                   current_section, k, files, opened, diagnostics>>
    /\ UNCHANGED varsA

\* main's loop goes on to the next target file, or ends
NextTarget ==
    /\ target' = target + 1
    /\ pc' = IF target = Len(Targets) THEN "done" ELSE "write"

\* write_section_to_file, lines 136-163
WriteSectionBegin ==
    /\ pc = "write"
    /\ LET fs == FileSections(sections, Targets[target])
       IN  IF HasNoSections(fs)
           THEN /\ diagnostics' =
                      Append(diagnostics, <<"No sections found for", Targets[target]>>)
                /\ NextTarget
                /\ UNCHANGED <<file_sections, current_section, k, files, opened>>
           ELSE /\ file_sections' = fs
                /\ opened' = opened \cup {target}
                /\ files' = [files EXCEPT ![target] =
                                [i \in 1..Len(Header(Targets[target])) |->
                                    Write("header", None, None, None,
                                          Header(Targets[target])[i])]]
                /\ current_section' = None
                /\ k' = 1
                /\ pc' = "loop"
                /\ UNCHANGED <<target, diagnostics>>
    /\ UNCHANGED <<input_doc, input_exists, sections, highlight_images>>
    /\ UNCHANGED varsA

\* write_section_to_file, lines 164-184: one iteration of the loop.
\* random.choice (line 177) raises IndexError on an empty list: the heading of
\* the iteration is written, the file is closed by the with block, and the
\* exception ends write_section_to_file and main.
WriteSectionRecord ==
    /\ pc = "loop"
    /\ k <= Len(file_sections)
    /\ IF highlight_images = <<>>
       THEN /\ files' = [files EXCEPT ![target] =
                            @ \o HeadingWrites(current_section, file_sections[k])]
            /\ pc' = "crash"
            /\ UNCHANGED k
       ELSE /\ \E j \in 1..Len(highlight_images) :
                  files' = [files EXCEPT ![target] =
                               @ \o RecordWrites(current_section, file_sections[k],
                                                 highlight_images[j])]
            /\ k' = k + 1
            /\ UNCHANGED pc
    /\ current_section' = file_sections[k].section_name
    /\ UNCHANGED <<input_doc, input_exists, sections, highlight_images, target,
                   file_sections, opened, diagnostics>>
    /\ UNCHANGED varsA

\* write_section_to_file, line 186, and the return to main's loop
WriteSectionEnd ==
    /\ pc = "loop"
    /\ k > Len(file_sections)
    /\ diagnostics' =
          Append(diagnostics, <<"Written", Len(file_sections), Targets[target]>>)
    /\ NextTarget
    /\ UNCHANGED <<input_doc, input_exists, sections, highlight_images,
                   file_sections, current_section, k, files, opened>>
    /\ UNCHANGED varsA

Next ==
    \/ MainCheckInput
    \/ MainExtract
    \/ MainGetHighlightImages
    \/ WriteSectionBegin
    \/ WriteSectionRecord
    \/ WriteSectionEnd

Spec == Init /\ [][Next]_vars

(***************************************************************************)
(* populate_eventprofiles.py: the DataFrame and its cells                  *)
(*                                                                         *)
(* A row is the tuple of its 11 columns; row.iloc[j] is the column j + 1.  *)
(* A cell is NaN, a number or a text.  A number holds its value in tenths  *)
(* (20210 is 2021.0), so that int() has something to truncate.             *)
(***************************************************************************)
NaN == <<"nan", 0>>
Num(tenths) == <<"num", tenths>>
Text(chunks) == <<"text", chunks>>
HeaderRow == <<Text(<<"header">>)>>   \* one of the rows 0..4, never read as data
HeaderRows == 5                       \* the data starts at index 5

notna(x) == x[1] # "nan"              \* pd.notna
Iloc(row, j) == row[j + 1]            \* row.iloc[j]

\* int(x) of a float: truncation toward zero
PyInt(x) == IF x[2] >= 0 THEN x[2] \div 10 ELSE -((-x[2]) \div 10)

\* line 89: is this row the first row of a new event?
IsNewEvent(row) ==
    notna(Iloc(row, 0)) /\ Strip(Iloc(row, 0)[2]) # <<>>

\* lines 99-101: does the row carry a usable year?
HasYear(row) ==
    notna(Iloc(row, 1)) /\ PyInt(Iloc(row, 1)) # 0

\* x if pd.notna(x) else ''
CellOrEmpty(x) == IF notna(x) THEN x ELSE Text(<<>>)

\* lines 102-116: the dictionary appended to event_data
YearEntry(row) ==
    [year |-> PyInt(Iloc(row, 1)),
     prelims |-> [j \in 1..4 |-> CellOrEmpty(Iloc(row, 1 + j))],
     finals |-> [j \in 1..4 |-> CellOrEmpty(Iloc(row, 6 + j))]]

(***************************************************************************)
(* create_event_latex                                                      *)
(***************************************************************************)
Lit(text) == <<"lit", text>>

\* lines 149-152: the background of the data row at index i
RowColorSwapped(i) ==
    IF i % 2 = 1 THEN Lit("\\rowcolor{gray!10}") ELSE Lit("\\rowcolor{white}")
RowColor(i) ==
    IF i % 2 = 0 THEN Lit("\\rowcolor{gray!10}") ELSE Lit("\\rowcolor{white}")

\* lines 154-155: the data row
DataRow(data) == <<"row", data.year, data.prelims \o data.finals>>

\* lines 143-155: the lines of the data rows from index i on (0-based)
RECURSIVE DataLines(_, _)
DataLines(data, i) ==
    IF i >= Len(data) THEN <<>>
    ELSE <<RowColor(i), DataRow(data[i + 1])>> \o DataLines(data, i + 1)

create_event_latex(event_name, data, headers) ==
    << <<"textbf", event_name>>,
       Lit(""),
       Lit("\\begin{flushleft}"),
       Lit("\\begin{tabular}{|>{\\columncolor{blue!20}}c|c|c|c|c|c|c|c|c|}"),
       Lit("\\hline"),
       Lit("\\rowcolor{blue!30}"),
       Lit("Year & \\multicolumn{4}{c|}{Prelims} & \\multicolumn{4}{c|}{Finals} \\\\"),
       Lit("\\cline{2-9}"),
       Lit("\\rowcolor{blue!30}"),
       Lit("& 1st & 8th & 9th & 16th & 1st & 8th & 9th & 16th \\\\"),
       Lit("\\hline") >>
    \o DataLines(data, 0)
    \o << Lit("\\hline"), Lit("\\end{tabular}"), Lit("\\end{flushleft}"), Lit("") >>

\* lines 91 and 119: is there a previous event to save?
HasEventToSaveAnyData(event, data) == event # None
HasEventToSave(event, data) == event # None /\ data # <<>>

(***************************************************************************)
(* create_latex_content_from_data                                          *)
(***************************************************************************)
Marker(text, year) == <<text, year, NaN, NaN, NaN, NaN, NaN, NaN, NaN, NaN, NaN>>
Years(c0, year, a, b, c, d) == <<c0, year, a, b, c, d, NaN, a, b, c, d>>

RowShapes ==
    { Marker(Text(<<SPACE, "100 Free", SPACE>>), NaN),
      Years(Text(<<"200 Free">>), Num(20210), Num(10), Num(80), Num(90), Num(160)),
      Years(Text(<<SPACE, SPACE>>), Num(20220), Num(20), Num(90), Num(100), Num(170)),
      Years(NaN, Num(20210), Num(10), Num(80), Num(90), Num(160)),
      Years(NaN, Num(20220), Num(20), Num(90), NaN, Num(170)),
      Years(NaN, Num(5), Num(10), Num(80), Num(90), Num(160)),
      Years(NaN, NaN, Num(10), Num(80), Num(90), Num(160)) }

DataFrames ==
    {NoneDF}
    \cup {DF([i \in 1..n |-> HeaderRow]) : n \in 0..(HeaderRows - 1)}
    \cup {DF([i \in 1..HeaderRows |-> HeaderRow] \o rows) :
             rows \in BoundedSeq(RowShapes, MaxRows)}

IdleB ==
    /\ input_exists = FALSE
    /\ input_doc = <<>>
    /\ pc = "idle"
    /\ sections = <<>>
    /\ highlight_images = <<>>
    /\ target = 1
    /\ file_sections = <<>>
    /\ current_section = None
    /\ k = 1
    /\ files = [t \in 1..3 |-> <<>>]
    /\ opened = {}
    /\ diagnostics = <<>>

InitA ==
    /\ df \in DataFrames
    /\ pcA = "start"
    /\ row_i = 0
    /\ current_event = None
    /\ event_data = <<>>
    /\ latex_content = <<>>
    /\ calls = <<>>
    /\ result = None
    /\ IdleB

\* lines 68-83
ContentBegin ==
    /\ pcA = "start"
    /\ IF df.none \/ df.rows = <<>>
       THEN /\ result' = <<Lit("% No data available")>>
            /\ pcA' = "done"
            /\ UNCHANGED row_i
       ELSE IF Len(df.rows) < HeaderRows
       THEN /\ result' = <<Lit("% Insufficient data")>>
            /\ pcA' = "done"
            /\ UNCHANGED row_i
       ELSE /\ row_i' = HeaderRows
            /\ pcA' = "rows"
            /\ UNCHANGED result
    /\ UNCHANGED <<df, current_event, event_data, latex_content, calls>>
    /\ UNCHANGED varsB

\* lines 85-116: one iteration of the loop over the rows
ContentRow ==
    /\ pcA = "rows"
    /\ row_i < Len(df.rows)
    /\ LET row == df.rows[row_i + 1]
           new == IsNewEvent(row)
           save == new /\ HasEventToSave(current_event, event_data)
           data == IF new THEN <<>> ELSE event_data
       IN  /\ latex_content' =
                 IF save
                 THEN latex_content
                      \o create_event_latex(current_event, event_data, df.rows[HeaderRows])
                 ELSE latex_content
           /\ calls' =
                 IF save
                 THEN Append(calls, [event_name |-> current_event, data |-> event_data])
                 ELSE calls
           /\ current_event' = IF new THEN Strip(Iloc(row, 0)[2]) ELSE current_event
           /\ event_data' = IF HasYear(row) THEN Append(data, YearEntry(row)) ELSE data
    /\ row_i' = row_i + 1
    /\ UNCHANGED <<df, pcA, result>>
    /\ UNCHANGED varsB

\* lines 118-122
ContentEnd ==
    /\ pcA = "rows"
    /\ row_i >= Len(df.rows)
    /\ LET save == HasEventToSave(current_event, event_data)
           lines == IF save
                    THEN latex_content
                         \o create_event_latex(current_event, event_data, df.rows[HeaderRows])
                    ELSE latex_content
       IN  /\ latex_content' = lines
           /\ calls' =
                 IF save
                 THEN Append(calls, [event_name |-> current_event, data |-> event_data])
                 ELSE calls
           /\ result' = lines
    /\ pcA' = "done"
    /\ UNCHANGED <<df, row_i, current_event, event_data>>
    /\ UNCHANGED varsB

NextA ==
    \/ ContentBegin
    \/ ContentRow
    \/ ContentEnd

SpecA == InitA /\ [][NextA]_vars

(***************************************************************************)
(* What the output files and the extracted records say                     *)
(***************************************************************************)
Done == pc = "done" /\ input_exists                \* main has returned
Crashed == pc = "crash"                            \* main ended by IndexError
Ended == Done \/ Crashed
IsKey(section_name) ==
    Len(section_name) = 1 /\ section_name[1] \in DOMAIN create_section_mapping
Triple(name, sub, text) == [name |-> name, sub |-> sub, text |-> text]

\* a record as the assembler is to write it: name, display label, body
AsWritten(section) ==
    Triple(section.section_name, SexMappingGet(section.sex), section.content)

\* the positions of the decorative pages in a file
PagePositions(file) ==
    SelectSeq([i \in 1..Len(file) |-> i], LAMBDA i : file[i].kind = "title_page")

\* the body written right after the write at position i (empty when none is)
BodyAfter(file, i) ==
    IF i < Len(file) /\ file[i + 1].kind = "text" /\ Strip(file[i + 1].text) # <<>>
    THEN file[i + 1].text
    ELSE <<>>

\* the records a file holds: one per decorative page, in file order
OutRecords(file) ==
    LET pp == PagePositions(file)
    IN  [n \in 1..Len(pp) |->
            Triple(file[pp[n]].name, file[pp[n]].sub, BodyAfter(file, pp[n]))]

\* is the decorative page at position i right behind a \subsection heading?
Headed(file, i) == i > 1 /\ file[i - 1].kind = "subsection"

\* the names of the \subsection headings of a file, in file order
HeadingNames(file) ==
    LET hs == SelectSeq(file, LAMBDA w : w.kind = "subsection")
    IN  [n \in 1..Len(hs) |-> hs[n].name]

\* the extracted records the table routes to the target t, in source order
RoutedTo(t) ==
    LET idx == SelectSeq([i \in 1..Len(sections) |-> i],
                   LAMBDA i : /\ IsKey(sections[i].section_name)
                              /\ create_section_mapping[sections[i].section_name[1]]
                                    = Targets[t])
    IN  [n \in 1..Len(idx) |-> sections[idx[n]]]

Names(recs) == [n \in 1..Len(recs) |-> recs[n].name]
RoutedNames(t) ==
    LET routed == RoutedTo(t)
    IN  [n \in 1..Len(routed) |-> routed[n].section_name]

\* no other name lies between two occurrences of one name
Contiguous(names) ==
    \A i, j \in 1..Len(names) :
        (i < j /\ names[i] = names[j]) => \A m \in i..j : names[m] = names[i]

\* the number of maximal runs of equal names
Runs(names) ==
    Cardinality({i \in 1..Len(names) : i = 1 \/ names[i] # names[i - 1]})

\* the first name of each maximal run of equal names
RunHeads(names) ==
    LET idx == SelectSeq([i \in 1..Len(names) |-> i],
                   LAMBDA i : i = 1 \/ names[i] # names[i - 1])
    IN  [n \in 1..Len(idx) |-> names[idx[n]]]

IsPrefix(a, b) == Len(a) <= Len(b) /\ a = SubSeq(b, 1, Len(a))

\* the names of the records the loop of lines 164-184 has walked for target t:
\* all of them once write_section_to_file is over, those before position k
\* while it runs, and the one at k too when the iteration raised
WalkedNames(t) ==
    IF t < target THEN RoutedNames(t)
    ELSE IF t = target /\ pc \in {"loop", "crash"}
    THEN [n \in 1..(IF pc = "crash" THEN k ELSE k - 1) |->
             file_sections[n].section_name]
    ELSE <<>>

(***************************************************************************)
(* C1.  Routing coverage: when the separator run has ended, every extracted *)
(* record whose section_name is a key of the mapping table is in the output *)
(* of exactly one target, the one the table names, and a record whose       *)
(* section_name is no key is in the output of no target.                    *)
(* The code does so on the runs that reach the end of main.  With an empty  *)
(* highlights directory the run is ended by IndexError at the first routed  *)
(* record, and no record with a key is in any output.                       *)
(***************************************************************************)
AppearsIn(section, recs) ==
    \E n \in 1..Len(recs) : recs[n] = AsWritten(section)

RoutedAsTheTableSays ==
        LET out == [t \in 1..3 |-> OutRecords(files[t])]
        IN  \A i \in 1..Len(sections) :
                LET name == sections[i].section_name
                    dests == {t \in 1..3 : AppearsIn(sections[i], out[t])}
                IN  IF IsKey(name)
                    THEN /\ dests = {t \in 1..3 :
                                        Targets[t] = create_section_mapping[name[1]]}
                         /\ Cardinality(dests) = 1
                    ELSE dests = {}

\* C1: when the run has ended, a record is in the file of the target the
\* table names for its section_name, and in no other file; a record without
\* a key is in none.
RoutingCoverage == Ended => RoutedAsTheTableSays

\* C1, of the runs that reach the end of main only
RoutingCoverageOnCompletion == Done => RoutedAsTheTableSays

RoutingCoverageWitness ==
    /\ Done
    /\ \E i, j \in 1..Len(sections) :
          /\ IsKey(sections[i].section_name)
          /\ ~IsKey(sections[j].section_name)
    /\ Cardinality(opened) >= 2

(***************************************************************************)
(* C2.  Grouping rule: in every output file a record (its decorative page)  *)
(* has a \subsection heading of its own exactly when it is the first record *)
(* of the file or its section_name differs from that of the record before   *)
(* it; the heading carries the record's name.  At every moment the headings *)
(* of a file are the first names of the maximal runs of equal section_name  *)
(* among the records walked so far, the record of an iteration that raised  *)
(* IndexError included: its heading is written before line 177.            *)
(***************************************************************************)
\* C2: a record has its own heading exactly when it is the first of the file
\* or its section_name differs from the previous record's; the headings are
\* as many as the maximal runs of equal section_name of the records walked.
GroupingRule ==
    \A t \in 1..3 :
        LET file == files[t]
            pp == PagePositions(file)
            walked == WalkedNames(t)
        IN  /\ \A n \in 1..Len(pp) :
                  /\ Headed(file, pp[n]) <=>
                        (n = 1 \/ file[pp[n]].name # file[pp[n - 1]].name)
                  /\ Headed(file, pp[n]) => file[pp[n] - 1].name = file[pp[n]].name
            /\ HeadingNames(file) = RunHeads(walked)
            /\ Len(HeadingNames(file)) = Runs(walked)
            /\ (t = target /\ pc = "crash") \/ Len(pp) = Len(walked)

GroupingRuleWitness ==
    /\ Done
    /\ \E t \in 1..3 :
          LET names == Names(OutRecords(files[t]))
          IN  /\ \E n \in 2..Len(names) : names[n] = names[n - 1]
              /\ ~Contiguous(names)
              /\ Len(HeadingNames(files[t])) < Len(names)

(***************************************************************************)
(* C3.  The grouping example: records ("A","Men"), ("A","Women"),           *)
(* ("B","Men"), ("A","Men"), A and B both routed to team.                   *)
(*   As claimed: the team file holds the headings A, A, B.                  *)
(*   As the code has it: the team file holds exactly three headings, for    *)
(*   A, B, A in that order; with an empty highlights directory the run is   *)
(*   ended by IndexError in the first iteration and the team file holds the *)
(*   one heading A.                                                         *)
(***************************************************************************)
ExampleA == <<"CMS All Time Top 10">>
ExampleB == <<"CMS Axelrood Pool Records">>
IsGroupingExample ==
    /\ Ended
    /\ [i \in 1..Len(sections) |-> <<sections[i].section_name, sections[i].sex>>]
          = << <<ExampleA, <<"Men">>>>, <<ExampleA, <<"Women">>>>,
               <<ExampleB, <<"Men">>>>, <<ExampleA, <<"Men">>>> >>

\* C3 as claimed: the example's team file holds the headings A, A, B.
GroupingExampleAsClaimed ==
    (IsGroupingExample /\ Done) =>
        HeadingNames(files[3]) = <<ExampleA, ExampleA, ExampleB>>

\* C3 as amended: the example's team file holds the headings A, B, A; when
\* there is no image to choose from, the heading A alone.
GroupingExample ==
    IsGroupingExample =>
        IF highlight_images # <<>>
        THEN Done /\ HeadingNames(files[3]) = <<ExampleA, ExampleB, ExampleA>>
        ELSE Crashed /\ HeadingNames(files[3]) = <<ExampleA>>

GroupingExampleWitness ==
    IsGroupingExample /\ Done /\ Len(OutRecords(files[3])) = 4

(***************************************************************************)
(* C4.  An existing input document without a heading/sub-heading pair.      *)
(*   As claimed: extraction is empty and the run leaves three files, each   *)
(*   holding only its header.                                               *)
(*   As the code has it: extraction is empty, no file is opened or written, *)
(*   and the run reports "No sections found" for champs, dual and team.     *)
(***************************************************************************)
IsHeading(tok) == tok[1] = "H"
IsSubHeading(tok) == tok[1] = "S"

\* the first position >= i of the document that holds no whitespace token
RECURSIVE NextNonSpace(_, _)
NextNonSpace(doc, i) ==
    IF i <= Len(doc) /\ doc[i] = W THEN NextNonSpace(doc, i + 1) ELSE i

\* is position i a heading with only whitespace between it and a sub-heading?
IsPairAt(doc, i) ==
    /\ IsHeading(doc[i])
    /\ NextNonSpace(doc, i + 1) <= Len(doc)
    /\ IsSubHeading(doc[NextNonSpace(doc, i + 1)])

NoPair(doc) == \A i \in 1..Len(doc) : ~IsPairAt(doc, i)

HeaderOnly(t) ==
    [i \in 1..Len(Header(Targets[t])) |->
        Write("header", None, None, None, Header(Targets[t])[i])]

\* C4 as claimed: without a heading/sub-heading pair the run leaves three
\* files holding only their header.
EmptyDocumentAsClaimed ==
    (Ended /\ NoPair(input_doc)) =>
        /\ sections = <<>>
        /\ \A t \in 1..3 : t \in opened /\ files[t] = HeaderOnly(t)

\* C4 as amended: without a heading/sub-heading pair extraction is empty, no
\* file is opened and "No sections found" is reported for each target.
EmptyDocument ==
    (Ended /\ NoPair(input_doc)) =>
        /\ Done
        /\ sections = <<>>
        /\ opened = {}
        /\ \A t \in 1..3 : files[t] = <<>>
        /\ diagnostics = [t \in 1..3 |-> <<"No sections found for", Targets[t]>>]

EmptyDocumentWitness ==
    /\ Done
    /\ NoPair(input_doc)
    /\ \E i \in 1..Len(input_doc) : IsHeading(input_doc[i])
    /\ \E i \in 1..Len(input_doc) : IsSubHeading(input_doc[i])
    /\ Len(diagnostics) = 3
    /\ highlight_images = <<>>

(***************************************************************************)
(* C5.  A target's file is opened and written exactly when at least one     *)
(* extracted record is routed to it; for a target without records no file   *)
(* is opened, nothing is written, "No sections found" is reported, and the  *)
(* run goes on: every target is reported once, in the order champs, dual,   *)
(* team.                                                                    *)
(* The code does so on the runs that reach the end of main.  With an empty  *)
(* highlights directory the run is ended by IndexError in the first target  *)
(* that has records: its file is left with the header and one heading, it   *)
(* is not reported, and the targets behind it are not processed, whether    *)
(* records are routed to them or not.                                       *)
(***************************************************************************)
WrittenIffRouted ==
        /\ Len(diagnostics) = 3
        /\ \A t \in 1..3 :
              /\ t \in opened <=> RoutedTo(t) # <<>>
              /\ t \in opened =>
                    /\ files[t] # <<>>
                    /\ diagnostics[t] = <<"Written", Len(RoutedTo(t)), Targets[t]>>
              /\ t \notin opened =>
                    /\ files[t] = <<>>
                    /\ diagnostics[t] = <<"No sections found for", Targets[t]>>

\* C5: when the run has ended, a target's file is written exactly when a
\* record is routed to it; otherwise the diagnostic is emitted and the run
\* goes on.
FileWrittenIffRouted == Ended => WrittenIffRouted

\* C5, of the runs that reach the end of main only
FileWrittenIffRoutedOnCompletion == Done => WrittenIffRouted

FileWrittenIffRoutedWitness ==
    /\ Done
    /\ 1 \notin opened
    /\ 2 \in opened
    /\ 3 \notin opened
    /\ sections # <<>>

(***************************************************************************)
(* C8.  Contiguity in a target's file.                                      *)
(*   As claimed: in every file the records of one section_name are          *)
(*   contiguous, whatever the extracted sequence.                           *)
(*   As the code has it: the file keeps the source order of its records     *)
(*   without regrouping, so the records of one section_name are contiguous  *)
(*   in the file exactly when they are contiguous among the records routed  *)
(*   to that target; the names appear in the order of their first           *)
(*   appearance in the source.  At every moment the records of a file are   *)
(*   the first of the records routed to its target, and a run ended by      *)
(*   IndexError leaves no record in any file.                               *)
(***************************************************************************)
\* the names of a sequence in the order of their first appearance
FirstSeen(names) ==
    LET idx == SelectSeq([i \in 1..Len(names) |-> i],
                   LAMBDA i : \A j \in 1..(i - 1) : names[j] # names[i])
    IN  [n \in 1..Len(idx) |-> names[idx[n]]]

\* C8 as claimed: in every file the records of one section_name are contiguous.
ContiguityAsClaimed ==
    Ended => \A t \in 1..3 : Contiguous(Names(OutRecords(files[t])))

\* C8 as amended: the records of one section_name are contiguous in a file
\* exactly when they are contiguous among the records routed to its target,
\* and the names keep the order of their first appearance.
ContiguityAsRouted ==
    \A t \in 1..3 :
        LET written == Names(OutRecords(files[t]))
            routed == RoutedNames(t)
        IN  /\ IsPrefix(written, routed)
            /\ Done => /\ Contiguous(written) <=> Contiguous(routed)
                       /\ FirstSeen(written) = FirstSeen(routed)
            /\ Crashed => written = <<>>

ContiguityAsRoutedWitness ==
    /\ Done
    /\ \E t \in 1..3 : ~Contiguous(Names(OutRecords(files[t])))
    /\ \E t \in 1..3 : Len(FirstSeen(Names(OutRecords(files[t])))) = 2

(***************************************************************************)
(* C9.  Order preservation: when the run has ended, the records of each     *)
(* target's file, each one decorative page followed by its body, are        *)
(* exactly the extracted records the table routes to that target, in source *)
(* order and each once; behind the header the file holds nothing but the    *)
(* headings, their spacing, and the records.                                *)
(* The code does so on the runs that reach the end of main.  With an empty  *)
(* highlights directory the run is ended by IndexError at the first routed  *)
(* record and the files hold none of the routed records.                    *)
(***************************************************************************)
\* the writes a record accounts for: its page, and its body with the blank
\* line behind it when the body is not empty
RecordSize(rec) == IF rec.text = <<>> THEN 1 ELSE 3

RECURSIVE SumSizes(_)
SumSizes(recs) ==
    IF recs = <<>> THEN 0 ELSE RecordSize(Head(recs)) + SumSizes(Tail(recs))

RoutedInSourceOrder ==
        \A t \in 1..3 :
            LET file == files[t]
                to_t == RoutedTo(t)
                routed == [n \in 1..Len(to_t) |-> AsWritten(to_t[n])]
            IN  /\ OutRecords(file) = routed
                /\ \A i \in 1..Len(file) :
                      file[i].kind = "title_page" /\ BodyAfter(file, i) # <<>>
                          => file[i + 2].text = <<NL, NL>>
                /\ t \in opened =>
                      Len(file) = Len(Header(Targets[t])) + SumSizes(routed)
                                  + 2 * Len(HeadingNames(file)) - 1

\* C9: when the run has ended, a file's records are the records routed to
\* its target, in source order, each once, each one page followed by its body.
OrderPreserved == Ended => RoutedInSourceOrder

\* C9, of the runs that reach the end of main only
OrderPreservedOnCompletion == Done => RoutedInSourceOrder

OrderPreservedWitness ==
    /\ Done
    /\ \E t \in 1..3 :
          LET recs == OutRecords(files[t])
          IN  /\ Len(recs) >= 2
              /\ recs[1] # recs[2]
    /\ \E t \in 1..3 :
          \E n \in 1..Len(OutRecords(files[t])) : OutRecords(files[t])[n].text = <<>>
    /\ \E i \in 1..Len(sections) : ~IsKey(sections[i].section_name)

(***************************************************************************)
(* C10.  Section extraction: the records are, in document order, one for    *)
(* each heading that has only whitespace between it and a sub-heading; the  *)
(* record holds the heading's name, the sub-heading's label and, as body,   *)
(* the text (less the whitespace around it) from behind the sub-heading up  *)
(* to the next heading, the \end{document}, or the end of the text.         *)
(* A heading without such a sub-heading gives no record and neither it nor  *)
(* the text behind it is part of a record; a document without headings      *)
(* gives no record.                                                         *)
(***************************************************************************)
\* the first position >= i holding a heading or \end{document}, or Len + 1
RECURSIVE BodyStop(_, _)
BodyStop(doc, i) ==
    IF i > Len(doc) \/ IsHeading(doc[i]) \/ doc[i] = E THEN i
    ELSE BodyStop(doc, i + 1)

\* the record the heading at position i stands for
RecordAt(doc, i) ==
    LET j == NextNonSpace(doc, i + 1)
    IN  [section_name |-> <<doc[i][2]>>,
         sex |-> <<doc[j][2]>>,
         content |-> Strip(FileText(SubSeq(doc, j + 1, BodyStop(doc, j + 1) - 1)))]

ExpectedRecords(doc) ==
    LET idx == SelectSeq([i \in 1..Len(doc) |-> i], LAMBDA i : IsPairAt(doc, i))
    IN  [n \in 1..Len(idx) |-> RecordAt(doc, idx[n])]

Extracted ==
    [n \in 1..Len(sections) |->
        [section_name |-> sections[n].section_name,
         sex |-> sections[n].sex,
         content |-> sections[n].content]]

\* C10: right after extraction the records are those of the headings that
\* are immediately followed by a sub-heading, in document order.
ExtractionForwardScan ==
    (input_exists /\ pc = "images") => Extracted = ExpectedRecords(input_doc)

ExtractionForwardScanWitness ==
    /\ input_exists
    /\ pc = "images"
    /\ Len(sections) = 2
    /\ \E i \in 1..Len(input_doc) :
          /\ IsHeading(input_doc[i])
          /\ ~IsPairAt(input_doc, i)
          /\ i < Len(input_doc)
          /\ input_doc[i + 1][1] = "T"
          /\ \E j \in (i + 1)..Len(input_doc) : IsPairAt(input_doc, j)
    /\ \E i \in 1..Len(input_doc) : input_doc[i] = E

ExtractionNothingWitness ==
    /\ input_exists
    /\ pc = "images"
    /\ sections = <<>>
    /\ \A i \in 1..Len(input_doc) : ~IsHeading(input_doc[i])
    /\ \E i \in 1..Len(input_doc) : IsSubHeading(input_doc[i])

(***************************************************************************)
(* C6.  The table blocks of create_latex_content_from_data.                 *)
(*   As claimed: as many blocks as event markers, the rows (from index 5    *)
(*   on) whose first column holds text that is not blank.                   *)
(*   As the code has it: as many blocks as event markers having at least    *)
(*   one row with a usable year (not NaN, not 0 once truncated) from the    *)
(*   marker row up to the row before the next marker.                       *)
(***************************************************************************)
DataRows == SubSeq(df.rows, HeaderRows + 1, Len(df.rows))

IsMarker(row) ==
    row[1][1] = "text" /\ \E i \in 1..Len(row[1][2]) : row[1][2][i] # SPACE
UsableYear(row) == row[2][1] = "num" /\ (row[2][2] >= 10 \/ row[2][2] <= -10)

MarkersWithYears ==
    {i \in 1..Len(DataRows) :
        /\ IsMarker(DataRows[i])
        /\ \E j \in i..Len(DataRows) :
              /\ UsableYear(DataRows[j])
              /\ \A m \in (i + 1)..j : ~IsMarker(DataRows[m])}

BlocksEmitted ==
    Cardinality({i \in 1..Len(latex_content) : latex_content[i][1] = "textbf"})

\* C6 as claimed: one block per event marker.
BlocksAsClaimed ==
    pcA = "done" =>
        /\ Len(calls) = Cardinality({i \in 1..Len(DataRows) : IsMarker(DataRows[i])})
        /\ BlocksEmitted = Len(calls)

\* C6 as amended: one block per event marker that collects a usable year row.
BlocksPerEventWithYears ==
    pcA = "done" =>
        /\ Len(calls) = Cardinality(MarkersWithYears)
        /\ BlocksEmitted = Len(calls)

BlocksPerEventWithYearsWitness ==
    /\ pcA = "done"
    /\ Len(calls) = 2
    /\ Cardinality({i \in 1..Len(DataRows) : IsMarker(DataRows[i])}) = 3

(***************************************************************************)
(* C7.  A rendered event block holds one data row per year row collected    *)
(* for the event, in order, and right before the data row at index i        *)
(* (0-based) stands \rowcolor{gray!10} when i is even and \rowcolor{white}  *)
(* when i is odd, whatever the year.                                        *)
(***************************************************************************)
\* the positions where the blocks of latex_content begin
BlockStarts ==
    SelectSeq([i \in 1..Len(latex_content) |-> i],
              LAMBDA i : latex_content[i][1] = "textbf")

\* the lines of the n-th block
Block(n) ==
    SubSeq(latex_content, BlockStarts[n],
           IF n < Len(BlockStarts) THEN BlockStarts[n + 1] - 1 ELSE Len(latex_content))

RowPositions(block) ==
    SelectSeq([i \in 1..Len(block) |-> i], LAMBDA i : block[i][1] = "row")

\* C7: one data row per collected year row, shaded by the parity of its index.
RowParityStyling ==
    /\ Len(BlockStarts) = Len(calls)
    /\ \A n \in 1..Len(BlockStarts) :
          LET block == Block(n)
              rp == RowPositions(block)
          IN  /\ Len(rp) = Len(calls[n].data)
              /\ \A r \in 1..Len(rp) :
                    /\ block[rp[r]][2] = calls[n].data[r].year
                    /\ block[rp[r] - 1] =
                          IF (r - 1) % 2 = 0
                          THEN <<"lit", "\\rowcolor{gray!10}">>
                          ELSE <<"lit", "\\rowcolor{white}">>

RowParityStylingWitness ==
    /\ pcA = "done"
    /\ Len(calls) = 2
    /\ [r \in 1..Len(calls[1].data) |-> calls[1].data[r].year] = <<2021, 2022>>
    /\ [r \in 1..Len(calls[2].data) |-> calls[2].data[r].year] = <<2022>>

====
